---- MODULE Spec2Model ----
(***************************************************************************)
(* Model of the WhatsApp relay bot of src/bot.js: the 'message' handler,   *)
(* the two MongoDB collections it uses (users, conversations), the fixed   *)
(* reply rules and the completion call with its fallback.                  *)
(*                                                                         *)
(* Granularity. Node runs the code between two awaits without              *)
(* interruption, so one action is one store (or completion) operation      *)
(* together with the continuation that runs when it returns, except where  *)
(* the continuation reads the clock (new Date()): there the continuation   *)
(* is a step of its own.  Each MongoDB operation (findOne, insertOne,      *)
(* updateOne with $push and upsert) is one atomic step of the store.       *)
(*                                                                         *)
(* Strings are sequences of text pieces.  Message bodies, patterns and     *)
(* completion texts are split into single characters, because trim(),      *)
(* toLowerCase(), === and includes() look inside them; the fixed replies   *)
(* and the role names are kept in one piece, because no code looks inside  *)
(* them.  The emoji that end the fixed replies are left out (ASCII only).  *)
(***************************************************************************)
EXTENDS Integers, Sequences, FiniteSets, TLC

VARIABLES
    users,          \* usersCollection: sequence of profile documents
    conversations,  \* conversationsCollection: sequence of {sender, history}
    clock,          \* the value new Date() returns
    pc,             \* position of each message handler
    sender,         \* msg.from of each handler
    body,           \* msg.body of each handler
    incomingMsg,    \* msg.body.trim()
    history,        \* local `history` of getBotResponse
    response,       \* local `response` of getBotResponse
    pending,        \* the turn of the updateOne call in flight
    sent,           \* the arguments of the msg.reply calls made so far
    gwCalls,        \* number of openai.chat.completions.create calls made
    gwResult,       \* how the completion call of the handler ended
    failedAt        \* the position at which a store operation threw

vars == <<users, conversations, clock, pc, sender, body, incomingMsg, history,
          response, pending, sent, gwCalls, gwResult, failedAt>>

-----------------------------------------------------------------------------
(* Bounds *)

NumHandlers == 2    \* message events of the concurrent specification
SeqMsgs == 3        \* message events of the sequential specification
MaxClock == 1       \* largest clock value
MaxRecLen == 22     \* longest stored record of the history specification
CtxMsgs == 11       \* message events of the context specification

(* Program constants *)

HistoryLimit == 20  \* slice(-20)

-----------------------------------------------------------------------------
(* Strings *)

Whitespace == {" ", "\t", "\n", "\r"}

Upper == <<"A", "B", "C", "D", "E", "F", "G", "H", "I", "J", "K", "L", "M",
           "N", "O", "P", "Q", "R", "S", "T", "U", "V", "W", "X", "Y", "Z">>

Lower == <<"a", "b", "c", "d", "e", "f", "g", "h", "i", "j", "k", "l", "m",
           "n", "o", "p", "q", "r", "s", "t", "u", "v", "w", "x", "y", "z">>

LowerChar(c) ==
    IF \E i \in 1..Len(Upper) : Upper[i] = c
    THEN Lower[CHOOSE i \in 1..Len(Upper) : Upper[i] = c]
    ELSE c

\* String.prototype.toLowerCase
toLowerCase(str) == [i \in 1..Len(str) |-> LowerChar(str[i])]

RECURSIVE TrimStart(_)
TrimStart(str) ==
    IF str # <<>> /\ Head(str) \in Whitespace THEN TrimStart(Tail(str)) ELSE str

RECURSIVE TrimEnd(_)
TrimEnd(str) ==
    IF str # <<>> /\ str[Len(str)] \in Whitespace
    THEN TrimEnd(SubSeq(str, 1, Len(str) - 1))
    ELSE str

\* String.prototype.trim
trim(str) == TrimEnd(TrimStart(str))

\* String.prototype.includes
includes(str, pat) ==
    \E i \in 0..(Len(str) - Len(pat)) : SubSeq(str, i + 1, i + Len(pat)) = pat

\* Array.prototype.slice(start) with one argument
slice(arr, start) ==
    LET from == IF start < 0
                THEN (IF Len(arr) + start < 0 THEN 0 ELSE Len(arr) + start)
                ELSE (IF start > Len(arr) THEN Len(arr) ELSE start)
    IN  SubSeq(arr, from + 1, Len(arr))

-----------------------------------------------------------------------------
(* Literals of the source *)

Human == "Human"
Bot == "Bot"

PatHi == <<"h", "i">>
PatWhoAreYou == <<"w", "h", "o", " ", "a", "r", "e", " ", "y", "o", "u">>
PatTellMeMore ==
    <<"t", "e", "l", "l", " ", "m", "e", " ", "m", "o", "r", "e", " ",
      "a", "b", "o", "u", "t", " ", "p", "a", "t", "r", "i", "c", "k">>

GreetingReply == <<"Hello! How can I assist you today?">>
WhoAreYouReply ==
    <<"I'm a bot created by Patrick Attankurugu. But enough about me, what's on your mind today?">>
TellMeMoreReply ==
    <<"Patrick Attankurugu is a great guy, but let's not make this all about him. What's up with you?">>
FallbackReply ==
    <<"Oops, something went wrong there! But hey, I'm still awesome, right?">>

-----------------------------------------------------------------------------
(* Inputs: senders, message bodies, completion outcomes *)

Senders == {"a", "b"}

BodyHi ==
    <<"h", "i">>

BodyHiPadded ==
    <<" ", "H", "i", " ">>

BodyHiUpper ==
    <<"H", "I">>

BodyHiTabbed ==
    <<"\t", "h", "I", "\n">>

BodyHiya ==
    <<"h", "i", "y", "a">>

BodyOhHi ==
    <<"o", "h", " ", "h", "i">>

BodyWhoAndTell ==
    <<"W", "h", "o", " ", "a", "r", "e", " ", "y", "o", "u", "?", " ", "T",
      "e", "l", "l", " ", "m", "e", " ", "m", "o", "r", "e", " ", "a", "b",
      "o", "u", "t", " ", "P", "a", "t", "r", "i", "c", "k">>

BodyTellAndWho ==
    <<"T", "e", "l", "l", " ", "m", "e", " ", "m", "o", "r", "e", " ", "a",
      "b", "o", "u", "t", " ", "P", "a", "t", "r", "i", "c", "k", ".", " ",
      "W", "h", "o", " ", "a", "r", "e", " ", "y", "o", "u">>

BodyTell ==
    <<"t", "e", "l", "l", " ", "m", "e", " ", "m", "o", "r", "e", " ", "a",
      "b", "o", "u", "t", " ", "P", "A", "T", "R", "I", "C", "K">>

BodyWho ==
    <<" ", "W", "H", "O", " ", "A", "R", "E", " ", "Y", "O", "U">>

BodyJoke ==
    <<"j", "o", "k", "e", "?">>

\* bodies of the concurrent and the sequential specification
Bodies == {BodyHiPadded, BodyHiya}

\* bodies of the rule specification
RuleBodies ==
    {BodyHi, BodyHiPadded, BodyHiUpper, BodyHiTabbed, BodyHiya, BodyOhHi, BodyWhoAndTell,
     BodyTellAndWho, BodyTell, BodyWho, BodyJoke}

\* what openai.chat.completions.create can do: resolve with a text, reject
\* (timeout, authentication, rate limit), or resolve with a malformed
\* response (no choices[0].message.content)
Completions ==
    { [kind |-> "text", content |-> <<" ", "l", "o", "l", "\n">>],
      [kind |-> "reject", content |-> <<>>],
      [kind |-> "malformed", content |-> <<>>] }

-----------------------------------------------------------------------------
(* The store *)

\* findOne({ sender }): the position of the first matching document, 0 if none
FindOne(coll, s) ==
    IF \E i \in 1..Len(coll) : coll[i].sender = s
    THEN CHOOSE i \in 1..Len(coll) :
            coll[i].sender = s /\ \A j \in 1..(i - 1) : coll[j].sender # s
    ELSE 0

\* the document getUserProfile builds for an unseen sender
NewUser(s) ==
    [sender |-> s, preferences |-> <<>>, favoriteResponses |-> <<>>,
     conversationHistory |-> <<>>]

\* insertOne(user)
InsertOne(coll, doc) == Append(coll, doc)

\* variant: the roles are mixed up, 'Bot' for the message and 'Human' for
\* the reply
TurnRolesSwapped(message, role, timestamp) ==
    [message |-> message,
     role |-> IF role = "Human" THEN "Bot"
              ELSE IF role = "Bot" THEN "Human" ELSE role,
     timestamp |-> timestamp]

\* { message, role, timestamp: new Date() }
Turn(message, role, timestamp) ==
    [message |-> message, role |-> role, timestamp |-> timestamp]

NoTurn == Turn(<<>>, "", 0)

\* variant: the history keeps the two newest turns only ($slice: -2)
PushSliced(hist, turn) ==
    IF Len(hist) >= 2 THEN <<hist[Len(hist)], turn>> ELSE Append(hist, turn)

\* variant: the turn is put in front ($position: 0)
PushFront(hist, turn) == <<turn>> \o hist

\* $push: { history: turn }
Push(hist, turn) == Append(hist, turn)

\* variant: no upsert, an update that matches no document does nothing
UpdateOneNoUpsert(coll, s, turn) ==
    LET i == FindOne(coll, s)
    IN  IF i = 0 THEN coll ELSE [coll EXCEPT ![i].history = Push(@, turn)]

\* variant: the filter is empty ({} instead of { sender }), the first
\* document of the collection is updated
UpdateOneNoFilter(coll, s, turn) ==
    IF coll = <<>>
    THEN Append(coll, [sender |-> s, history |-> Push(<<>>, turn)])
    ELSE [coll EXCEPT ![1].history = Push(@, turn)]

\* variant: the history is replaced by the new turn ($set instead of $push)
UpdateOneReplace(coll, s, turn) ==
    LET i == FindOne(coll, s)
    IN  IF i = 0
        THEN Append(coll, [sender |-> s, history |-> <<turn>>])
        ELSE [coll EXCEPT ![i].history = <<turn>>]

\* updateOne({ sender }, { $push: { history: turn } }, { upsert: true })
UpdateOne(coll, s, turn) ==
    LET i == FindOne(coll, s)
    IN  IF i = 0
        THEN Append(coll, [sender |-> s, history |-> Push(<<>>, turn)])
        ELSE [coll EXCEPT ![i].history = Push(@, turn)]

\* `${entry.role}: ${entry.message}`
Render(entry) == <<entry.role, ":", " ">> \o entry.message

\* variant: the first HistoryLimit turns instead of the last (slice(0, 20))
getConversationHistoryOldest(coll, s) ==
    LET i == FindOne(coll, s)
    IN  IF i # 0
        THEN LET first == SubSeq(coll[i].history, 1,
                                 IF Len(coll[i].history) < HistoryLimit
                                 THEN Len(coll[i].history) ELSE HistoryLimit)
             IN  [k \in 1..Len(first) |-> Render(first[k])]
        ELSE <<>>

\* variant: the whole history is returned (no slice)
getConversationHistoryAll(coll, s) ==
    LET i == FindOne(coll, s)
    IN  IF i # 0
        THEN [k \in 1..Len(coll[i].history) |-> Render(coll[i].history[k])]
        ELSE <<>>

\* getConversationHistory: what it returns when its findOne sees coll
getConversationHistory(coll, s) ==
    LET i == FindOne(coll, s)
    IN  IF i # 0
        THEN LET last == slice(coll[i].history, 0 - HistoryLimit)
             IN  [k \in 1..Len(last) |-> Render(last[k])]
        ELSE <<>>

-----------------------------------------------------------------------------
(* The reply rules and the completion call *)

\* variant: the "tell me more about patrick" test comes before "who are you"
MatchedRuleTellFirst(m) ==
    IF toLowerCase(m) = PatHi THEN 1
    ELSE IF includes(toLowerCase(m), PatTellMeMore) THEN 3
    ELSE IF includes(toLowerCase(m), PatWhoAreYou) THEN 2
    ELSE 0

\* variant: the greeting test is includes("hi") instead of === "hi"
MatchedRuleHiIncluded(m) ==
    IF includes(toLowerCase(m), PatHi) THEN 1
    ELSE IF includes(toLowerCase(m), PatWhoAreYou) THEN 2
    ELSE IF includes(toLowerCase(m), PatTellMeMore) THEN 3
    ELSE 0

\* the first of the three `if`s of getBotResponse that holds, 0 if none
MatchedRule(m) ==
    IF toLowerCase(m) = PatHi THEN 1
    ELSE IF includes(toLowerCase(m), PatWhoAreYou) THEN 2
    ELSE IF includes(toLowerCase(m), PatTellMeMore) THEN 3
    ELSE 0

RuleResponse(r) ==
    CASE r = 1 -> GreetingReply
      [] r = 2 -> WhoAreYouReply
      [] r = 3 -> TellMeMoreReply

\* variant: the catch logs the error and returns nothing
CompletionReplyNoFallback(out) ==
    IF out.kind = "text" THEN trim(out.content) ELSE <<>>

\* .then(response => response.choices[0].message.content.trim())
\* .catch(error => fallback): the catch also takes what the then throws
CompletionReply(out) ==
    IF out.kind = "text" THEN trim(out.content) ELSE FallbackReply

CompletionResult(out) == IF out.kind = "text" THEN "ok" ELSE "error"

-----------------------------------------------------------------------------
(* Initial states *)

InitHandlers(n) ==
    /\ pc = [h \in 1..n |-> "idle"]
    /\ sender = [h \in 1..n |-> ""]
    /\ body = [h \in 1..n |-> <<>>]
    /\ incomingMsg = [h \in 1..n |-> <<>>]
    /\ history = [h \in 1..n |-> <<>>]
    /\ response = [h \in 1..n |-> <<>>]
    /\ pending = [h \in 1..n |-> NoTurn]
    /\ sent = [h \in 1..n |-> <<>>]
    /\ gwCalls = [h \in 1..n |-> 0]
    /\ gwResult = [h \in 1..n |-> "none"]
    /\ failedAt = [h \in 1..n |-> "none"]

\* empty database, no message received yet
Init ==
    /\ users = <<>>
    /\ conversations = <<>>
    /\ clock = 0
    /\ InitHandlers(NumHandlers)

Handlers == DOMAIN pc

-----------------------------------------------------------------------------
(* The message handler, client.on('message', ...) and getBotResponse *)

\* positions at which a store operation is in flight
StorePcs ==
    {"appendHuman", "findUser", "insertUser", "findConversation", "appendBot"}

\* variant: the handler goes to getBotResponse without the Human append
ReceiveMessageNoAppend(h, s, b) ==
    /\ pc[h] = "idle"
    /\ \A g \in Handlers : g < h => pc[g] # "idle"
    /\ sender' = [sender EXCEPT ![h] = s]
    /\ body' = [body EXCEPT ![h] = b]
    /\ incomingMsg' = [incomingMsg EXCEPT ![h] = trim(b)]
    /\ pc' = [pc EXCEPT ![h] = "findUser"]
    /\ UNCHANGED <<users, conversations, clock, history, response, pending,
                   sent, gwCalls, gwResult, failedAt>>

\* variant: the Human append is not awaited, getUserProfile starts at once
ReceiveMessageProfileFirst(h, s, b) ==
    /\ pc[h] = "idle"
    /\ \A g \in Handlers : g < h => pc[g] # "idle"
    /\ sender' = [sender EXCEPT ![h] = s]
    /\ body' = [body EXCEPT ![h] = b]
    /\ incomingMsg' = [incomingMsg EXCEPT ![h] = trim(b)]
    /\ pending' = [pending EXCEPT ![h] = Turn(trim(b), Human, clock)]
    /\ pc' = [pc EXCEPT ![h] = "findUser"]
    /\ UNCHANGED <<users, conversations, clock, history, response, sent,
                   gwCalls, gwResult, failedAt>>

\* lines 78-84: the event arrives, the body is trimmed and the Human append
\* is issued with the current date.  Events are numbered in arrival order.
ReceiveMessage(h, s, b) ==
    /\ pc[h] = "idle"
    /\ \A g \in Handlers : g < h => pc[g] # "idle"
    /\ sender' = [sender EXCEPT ![h] = s]
    /\ body' = [body EXCEPT ![h] = b]
    /\ incomingMsg' = [incomingMsg EXCEPT ![h] = trim(b)]
    /\ pending' = [pending EXCEPT ![h] = Turn(trim(b), Human, clock)]
    /\ pc' = [pc EXCEPT ![h] = "appendHuman"]
    /\ UNCHANGED <<users, conversations, clock, history, response, sent,
                   gwCalls, gwResult, failedAt>>

\* the store applies the updateOne of updateConversationHistory.  After the
\* Human append the handler enters getBotResponse and getUserProfile issues
\* its findOne; after the Bot append getBotResponse returns the response.
ApplyAppend(h) ==
    /\ pc[h] \in {"appendHuman", "appendBot"}
    /\ conversations' = UpdateOne(conversations, sender[h], pending[h])
    /\ pending' = [pending EXCEPT ![h] = NoTurn]
    /\ pc' = [pc EXCEPT ![h] = IF pc[h] = "appendHuman"
                               THEN "findUser" ELSE "reply"]
    /\ UNCHANGED <<users, clock, sender, body, incomingMsg, history, response,
                   sent, gwCalls, gwResult, failedAt>>

\* variant: the result of findOne is ignored and a document is always inserted
FindUserAlwaysNew(h) ==
    /\ pc[h] = "findUser"
    /\ pc' = [pc EXCEPT ![h] = "insertUser"]
    /\ UNCHANGED <<users, conversations, clock, sender, body, incomingMsg,
                   history, response, pending, sent, gwCalls, gwResult,
                   failedAt>>

\* getUserProfile, line 99: findOne returns; lines 100-102: an unseen sender
\* gets a new document and insertOne is issued, otherwise getUserProfile
\* returns and getConversationHistory issues its findOne
FindUser(h) ==
    /\ pc[h] = "findUser"
    /\ pc' = [pc EXCEPT ![h] = IF FindOne(users, sender[h]) = 0
                               THEN "insertUser" ELSE "findConversation"]
    /\ UNCHANGED <<users, conversations, clock, sender, body, incomingMsg,
                   history, response, pending, sent, gwCalls, gwResult,
                   failedAt>>

\* getUserProfile, line 102: the store applies insertOne; then
\* getConversationHistory issues its findOne
InsertUser(h) ==
    /\ pc[h] = "insertUser"
    /\ users' = InsertOne(users, NewUser(sender[h]))
    /\ pc' = [pc EXCEPT ![h] = "findConversation"]
    /\ UNCHANGED <<conversations, clock, sender, body, incomingMsg, history,
                   response, pending, sent, gwCalls, gwResult, failedAt>>

\* getConversationHistory, lines 116-120: findOne returns
FindConversation(h) ==
    /\ pc[h] = "findConversation"
    /\ history' = [history EXCEPT
                      ![h] = getConversationHistory(conversations, sender[h])]
    /\ pc' = [pc EXCEPT ![h] = "rules"]
    /\ UNCHANGED <<users, conversations, clock, sender, body, incomingMsg,
                   response, pending, sent, gwCalls, gwResult,
                   failedAt>>

\* variant: line 127 is missing, the prompt holds what the store returned
TryRulesNoPush(h) ==
    /\ pc[h] = "rules"
    /\ LET r == MatchedRule(incomingMsg[h])
       IN  IF r # 0
           THEN /\ response' = [response EXCEPT ![h] = RuleResponse(r)]
                /\ pending' = [pending EXCEPT
                                  ![h] = Turn(RuleResponse(r), Bot, clock)]
                /\ history' = [history EXCEPT ![h] = <<>>]
                /\ pc' = [pc EXCEPT ![h] = "appendBot"]
                /\ UNCHANGED gwCalls
           ELSE /\ gwCalls' = [gwCalls EXCEPT ![h] = @ + 1]
                /\ pc' = [pc EXCEPT ![h] = "gateway"]
                /\ UNCHANGED <<history, response, pending>>
    /\ UNCHANGED <<users, conversations, clock, sender, body, incomingMsg,
                   sent, gwResult, failedAt>>

\* getBotResponse, lines 127-157: the message is pushed on the local history,
\* the rules are tried; a rule hit issues the Bot append with the current
\* date, a miss builds the prompt and calls the completion service.  Only
\* the prompt reads the local history (line 151): it is kept while the
\* completion call is in flight and dropped where nothing reads it again.
TryRules(h) ==
    /\ pc[h] = "rules"
    /\ LET r == MatchedRule(incomingMsg[h])
       IN  IF r # 0
           THEN /\ response' = [response EXCEPT ![h] = RuleResponse(r)]
                /\ pending' = [pending EXCEPT
                                  ![h] = Turn(RuleResponse(r), Bot, clock)]
                /\ history' = [history EXCEPT ![h] = <<>>]
                /\ pc' = [pc EXCEPT ![h] = "appendBot"]
                /\ UNCHANGED gwCalls
           ELSE /\ history' = [history EXCEPT
                                  ![h] = Append(@, <<Human, ":", " ">>
                                                      \o incomingMsg[h])]
                /\ gwCalls' = [gwCalls EXCEPT ![h] = @ + 1]
                /\ pc' = [pc EXCEPT ![h] = "gateway"]
                /\ UNCHANGED <<response, pending>>
    /\ UNCHANGED <<users, conversations, clock, sender, body, incomingMsg,
                   sent, gwResult, failedAt>>

\* variant: line 168 is missing, the completion's response is returned
\* without a Bot append
GatewayReturnNoAppend(h, out) ==
    /\ pc[h] = "gateway"
    /\ gwResult' = [gwResult EXCEPT ![h] = CompletionResult(out)]
    /\ response' = [response EXCEPT ![h] = CompletionReply(out)]
    /\ history' = [history EXCEPT ![h] = <<>>]
    /\ pc' = [pc EXCEPT ![h] = "reply"]
    /\ UNCHANGED <<users, conversations, clock, sender, body, incomingMsg,
                   pending, sent, gwCalls, failedAt>>

\* variant: a rejected or malformed completion is tried again from the
\* reading of the history
GatewayReturnRetry(h, out) ==
    /\ pc[h] = "gateway"
    /\ gwResult' = [gwResult EXCEPT ![h] = CompletionResult(out)]
    /\ IF out.kind = "text"
       THEN /\ response' = [response EXCEPT ![h] = CompletionReply(out)]
            /\ pending' = [pending EXCEPT
                              ![h] = Turn(CompletionReply(out), Bot, clock)]
            /\ history' = [history EXCEPT ![h] = <<>>]
            /\ pc' = [pc EXCEPT ![h] = "appendBot"]
       ELSE /\ history' = [history EXCEPT ![h] = <<>>]
            /\ pc' = [pc EXCEPT ![h] = "findConversation"]
            /\ UNCHANGED <<response, pending>>
    /\ UNCHANGED <<users, conversations, clock, sender, body, incomingMsg,
                   sent, gwCalls, failedAt>>

\* lines 157-168: the completion call settles, the then/catch chain yields
\* the response and the Bot append is issued with the current date
GatewayReturn(h, out) ==
    /\ pc[h] = "gateway"
    /\ gwResult' = [gwResult EXCEPT ![h] = CompletionResult(out)]
    /\ response' = [response EXCEPT ![h] = CompletionReply(out)]
    /\ pending' = [pending EXCEPT
                      ![h] = Turn(CompletionReply(out), Bot, clock)]
    /\ history' = [history EXCEPT ![h] = <<>>]
    /\ pc' = [pc EXCEPT ![h] = "appendBot"]
    /\ UNCHANGED <<users, conversations, clock, sender, body, incomingMsg,
                   sent, gwCalls, failedAt>>

\* lines 86-89: getBotResponse has returned, msg.reply(botResponse)
Reply(h) ==
    /\ pc[h] = "reply"
    /\ sent' = [sent EXCEPT ![h] = Append(@, response[h])]
    /\ pc' = [pc EXCEPT ![h] = "done"]
    /\ UNCHANGED <<users, conversations, clock, sender, body, incomingMsg,
                   history, response, pending, gwCalls, gwResult,
                   failedAt>>

\* variant: the operation that threw is issued again
StoreFailRetried(h) ==
    /\ pc[h] \in StorePcs
    /\ failedAt' = [failedAt EXCEPT ![h] = pc[h]]
    /\ UNCHANGED <<users, conversations, clock, pc, sender, body, incomingMsg,
                   history, response, pending, sent, gwCalls, gwResult>>

\* a store operation throws: no try/catch surrounds any await of the handler
\* or of getBotResponse, so the handler's promise rejects and nothing after
\* the await runs; the locals of getBotResponse are gone
StoreFail(h) ==
    /\ pc[h] \in StorePcs
    /\ failedAt' = [failedAt EXCEPT ![h] = pc[h]]
    /\ pending' = [pending EXCEPT ![h] = NoTurn]
    /\ history' = [history EXCEPT ![h] = <<>>]
    /\ pc' = [pc EXCEPT ![h] = "failed"]
    /\ UNCHANGED <<users, conversations, clock, sender, body, incomingMsg,
                   response, sent, gwCalls, gwResult>>

\* time passes
Tick ==
    /\ clock < MaxClock
    /\ clock' = clock + 1
    /\ UNCHANGED <<users, conversations, pc, sender, body, incomingMsg,
                   history, response, pending, sent, gwCalls, gwResult, failedAt>>

-----------------------------------------------------------------------------
(* Concurrent handlers, store failures.  No claim checked here reads a
   timestamp, so the clock stands still. *)

\* the database starts empty and senders differ in name only, so the sender
\* of the first message is called "a"
SenderChoices == IF \A h \in Handlers : pc[h] = "idle" THEN {"a"} ELSE Senders

Next ==
    \/ \E h \in Handlers, s \in SenderChoices, b \in Bodies :
          ReceiveMessage(h, s, b)
    \/ \E h \in Handlers : ApplyAppend(h)
    \/ \E h \in Handlers : FindUser(h)
    \/ \E h \in Handlers : InsertUser(h)
    \/ \E h \in Handlers : FindConversation(h)
    \/ \E h \in Handlers : TryRules(h)
    \/ \E h \in Handlers, out \in Completions : GatewayReturn(h, out)
    \/ \E h \in Handlers : Reply(h)
    \/ \E h \in Handlers : StoreFail(h)

Spec == Init /\ [][Next]_vars

-----------------------------------------------------------------------------
(* Messages handled one after another, no store failure *)

InitSeq ==
    /\ users = <<>>
    /\ conversations = <<>>
    /\ clock = 0
    /\ InitHandlers(SeqMsgs)

\* the next event arrives when the handlers of the earlier ones have finished
ReceiveInTurn(h, s, b) ==
    /\ \A g \in Handlers : pc[g] \in {"idle", "done"}
    /\ ReceiveMessage(h, s, b)

NextSeq ==
    \/ \E h \in Handlers, s \in Senders, b \in Bodies : ReceiveInTurn(h, s, b)
    \/ \E h \in Handlers : ApplyAppend(h)
    \/ \E h \in Handlers : FindUser(h)
    \/ \E h \in Handlers : InsertUser(h)
    \/ \E h \in Handlers : FindConversation(h)
    \/ \E h \in Handlers : TryRules(h)
    \/ \E h \in Handlers, out \in Completions : GatewayReturn(h, out)
    \/ \E h \in Handlers : Reply(h)
    \/ Tick

SpecSeq == InitSeq /\ [][NextSeq]_vars

-----------------------------------------------------------------------------
(* One message, every body of RuleBodies *)

InitRules ==
    /\ users = <<>>
    /\ conversations = <<>>
    /\ clock = 0
    /\ InitHandlers(1)

NextRules ==
    \/ \E h \in Handlers, s \in Senders, b \in RuleBodies :
          ReceiveMessage(h, s, b)
    \/ \E h \in Handlers : ApplyAppend(h)
    \/ \E h \in Handlers : FindUser(h)
    \/ \E h \in Handlers : InsertUser(h)
    \/ \E h \in Handlers : FindConversation(h)
    \/ \E h \in Handlers : TryRules(h)
    \/ \E h \in Handlers, out \in Completions : GatewayReturn(h, out)
    \/ \E h \in Handlers : Reply(h)
    \/ Tick

SpecRules == InitRules /\ [][NextRules]_vars

-----------------------------------------------------------------------------
(* getConversationHistory on a stored record of any length *)

PriorMessages == <<BodyHi, BodyHiya, BodyJoke>>

\* a record of len turns left by earlier conversations: Human and Bot turns
\* alternate, the messages cycle through PriorMessages starting at k
StoredRecord(len, k) ==
    [i \in 1..len |->
        Turn(PriorMessages[((i + k) % Len(PriorMessages)) + 1],
             IF i % 2 = 1 THEN Human ELSE Bot, 0)]

\* sender "a" has a record of 1..MaxRecLen turns or none, sender "b" has none
InitHist ==
    /\ users = <<>>
    /\ \E len \in 0..MaxRecLen, k \in 0..(Len(PriorMessages) - 1) :
          conversations =
             IF len = 0 THEN <<>>
             ELSE <<[sender |-> "a", history |-> StoredRecord(len, k)]>>
    /\ clock = 0
    /\ InitHandlers(1)

\* a call of getConversationHistory(s) on its own, lines 115-121
ReadHistory(h, s) ==
    /\ pc[h] = "idle"
    /\ sender' = [sender EXCEPT ![h] = s]
    /\ history' = [history EXCEPT
                      ![h] = getConversationHistory(conversations, s)]
    /\ pc' = [pc EXCEPT ![h] = "read"]
    /\ UNCHANGED <<users, conversations, clock, body, incomingMsg, response,
                   pending, sent, gwCalls, gwResult, failedAt>>

NextHist == \E h \in Handlers, s \in Senders : ReadHistory(h, s)

SpecHist == InitHist /\ [][NextHist]_vars

-----------------------------------------------------------------------------
(* A slow handler and many messages of the same sender behind it: the first
   event is handled concurrently with all later ones, the later ones are
   greetings handled one after another *)

InitCtx ==
    /\ users = <<>>
    /\ conversations = <<>>
    /\ clock = 0
    /\ InitHandlers(CtxMsgs)

ReceiveCtx(h, b) ==
    /\ h > 1 => /\ b = BodyHiPadded
                /\ \A g \in Handlers \ {1} : pc[g] \in {"idle", "done"}
    /\ ReceiveMessage(h, "a", b)

NextCtx ==
    \/ \E h \in Handlers, b \in Bodies : ReceiveCtx(h, b)
    \/ \E h \in Handlers : ApplyAppend(h)
    \/ \E h \in Handlers : FindUser(h)
    \/ \E h \in Handlers : InsertUser(h)
    \/ \E h \in Handlers : FindConversation(h)
    \/ \E h \in Handlers : TryRules(h)
    \/ \E h \in Handlers, out \in Completions : GatewayReturn(h, out)
    \/ \E h \in Handlers : Reply(h)

SpecCtx == InitCtx /\ [][NextCtx]_vars

-----------------------------------------------------------------------------
(* Concurrent handlers and a running clock, no store failure.  The messages
   of sender "a" arrive one at a time (a message of "a" arrives when every
   earlier handler of "a" has finished) and go to the completion service;
   those of sender "b" arrive at any time and are greetings.  Handlers of
   different senders always run concurrently. *)

ReceiveClock(h, s, b) ==
    /\ b = (IF s = "a" THEN BodyHiya ELSE BodyHiPadded)
    /\ s = "a" => \A g \in Handlers : sender[g] = "a" => pc[g] = "done"
    /\ ReceiveMessage(h, s, b)

NextClock ==
    \/ \E h \in Handlers, s \in Senders, b \in Bodies : ReceiveClock(h, s, b)
    \/ \E h \in Handlers : ApplyAppend(h)
    \/ \E h \in Handlers : FindUser(h)
    \/ \E h \in Handlers : InsertUser(h)
    \/ \E h \in Handlers : FindConversation(h)
    \/ \E h \in Handlers : TryRules(h)
    \/ \E h \in Handlers, out \in Completions : GatewayReturn(h, out)
    \/ \E h \in Handlers : Reply(h)
    \/ Tick

SpecClock == Init /\ [][NextClock]_vars

-----------------------------------------------------------------------------
(* Properties *)

\* the history of the document findOne({ sender: s }) returns, empty if none
Record(s) ==
    IF FindOne(conversations, s) = 0 THEN <<>>
    ELSE conversations[FindOne(conversations, s)].history

\* number of documents of a collection keyed by s
Count(coll, s) == Cardinality({i \in 1..Len(coll) : coll[i].sender = s})

\* number of turns of the record of s with the given role and message
Turns(s, role, message) ==
    Cardinality({i \in 1..Len(Record(s)) :
                    Record(s)[i].role = role /\ Record(s)[i].message = message})

\* the role and the message of each turn, in record order
RolesAndMessages(hist) ==
    [i \in 1..Len(hist) |-> <<hist[i].role, hist[i].message>>]

\* Human(m), Bot(r) for each finished message of s among the first n events
RECURSIVE Exchanges(_, _)
Exchanges(s, n) ==
    IF n = 0 THEN <<>>
    ELSE Exchanges(s, n - 1) \o
         (IF sender[n] = s /\ pc[n] = "done"
          THEN << <<"Human", incomingMsg[n]>>, <<"Bot", sent[n][1]>> >>
          ELSE <<>>)

Finished(s) == {h \in Handlers : sender[h] = s /\ pc[h] = "done"}

\* C1: when the messages are handled one after another without store
\* failure, then whenever no handler is running the record of every sender
\* is Human(m1), Bot(r1), ..., Human(mN), Bot(rN) for its N finished messages
\* in arrival order, ri being the reply handed to the transport for mi.
C1_TwoTurnsPerMessageInOrder ==
    (\A h \in Handlers : pc[h] \in {"idle", "done"}) =>
        \A s \in Senders :
            /\ Len(Record(s)) = 2 * Cardinality(Finished(s))
            /\ RolesAndMessages(Record(s)) = Exchanges(s, Cardinality(Handlers))

C1_Witness ==
    /\ \A h \in Handlers : pc[h] = "done" /\ sender[h] = "a"
    /\ Len(Record("a")) = 2 * Cardinality(Handlers)
    /\ \E h \in Handlers : gwCalls[h] = 1
    /\ \E h \in Handlers : gwCalls[h] = 0

\* C2: with messages handled one after another, once a first message of a
\* sender has been handled there is exactly one profile and exactly one
\* conversation record keyed by the sender, whatever number of further
\* messages follow (never more than one at any time), and a step never
\* changes or removes a profile that exists.
C2_OneProfileOneRecord ==
    /\ [](\A s \in Senders :
            /\ Count(users, s) <= 1
            /\ Count(conversations, s) <= 1
            /\ Finished(s) # {} =>
                  Count(users, s) = 1 /\ Count(conversations, s) = 1)
    /\ [][\A s \in Senders :
            Count(users, s) = 1 =>
               /\ Count(users', s) = 1
               /\ users'[FindOne(users', s)] = users[FindOne(users, s)]]_vars

C2_Witness ==
    /\ Cardinality(Finished("a")) >= 2
    /\ Count(users, "a") = 1
    /\ Count(conversations, "a") = 1

\* C3: once two or more handlers of the same sender have all finished,
\* exactly one profile of that sender exists.
C3_OneProfileAfterConcurrentFirstContact ==
    \A s \in Senders :
        (/\ Cardinality(Finished(s)) >= 2
         /\ \A h \in Handlers : sender[h] = s => pc[h] = "done")
        => Count(users, s) = 1

\* C4: getConversationHistory returns the last min(L, 20) turns of a stored
\* record of length L, oldest first, each as "role: message", and the empty
\* sequence when the sender has no record.
C4_LastTwentyOldestFirst ==
    \A h \in Handlers :
        pc[h] = "read" =>
            LET rec == Record(sender[h])
                n == IF Len(rec) < 20 THEN Len(rec) ELSE 20
            IN  /\ Len(history[h]) = n
                /\ \A i \in 1..n :
                      history[h][i] =
                         <<rec[Len(rec) - n + i].role, ":", " ">>
                            \o rec[Len(rec) - n + i].message
                /\ Count(conversations, sender[h]) = 0 => history[h] = <<>>

C4_Witness ==
    \E h \in Handlers :
        /\ pc[h] = "read"
        /\ Len(Record(sender[h])) > 20
        /\ Len(history[h]) = 20

\* C5: the rules are tried in the order "hi", "who are you", "tell me more
\* about patrick" and the first that matches gives the reply; a message that
\* matches a rule never causes a completion call.
C5_FirstMatchingRuleWins ==
    \A h \in Handlers :
        LET m == toLowerCase(incomingMsg[h])
            isHi == m = <<"h", "i">>
            hasWho == includes(m, PatWhoAreYou)
            hasTell == includes(m, PatTellMeMore)
        IN  (pc[h] # "idle" /\ (isHi \/ hasWho \/ hasTell)) =>
               /\ gwCalls[h] = 0
               /\ gwResult[h] = "none"
               /\ pc[h] # "gateway"
               /\ pc[h] \in {"appendBot", "reply", "done"} =>
                     /\ isHi => response[h] = GreetingReply
                     /\ (~isHi /\ hasWho) => response[h] = WhoAreYouReply
                     /\ (~isHi /\ ~hasWho /\ hasTell) =>
                           response[h] = TellMeMoreReply
               /\ pc[h] = "done" /\ body[h] \in {BodyWhoAndTell, BodyTellAndWho}
                     => sent[h] = <<WhoAreYouReply>>

C5_Witness ==
    \E h \in Handlers :
        /\ pc[h] = "done"
        /\ body[h] = BodyWhoAndTell
        /\ sent[h] = <<WhoAreYouReply>>
        /\ gwCalls[h] = 0

\* C6: a body that is "hi" after trimming and lower-casing gets the greeting
\* without a completion call; a body that only contains "hi" and matches no
\* other rule gets the reply of a completion call instead.
C6_GreetingIsExactMatch ==
    \A h \in Handlers :
        LET m == toLowerCase(trim(body[h]))
        IN  pc[h] \in {"appendBot", "reply", "done"} =>
               /\ m = <<"h", "i">> =>
                     response[h] = GreetingReply /\ gwCalls[h] = 0
               /\ (/\ m # <<"h", "i">>
                   /\ includes(m, <<"h", "i">>)
                   /\ ~includes(m, PatWhoAreYou)
                   /\ ~includes(m, PatTellMeMore)) =>
                     /\ gwCalls[h] = 1
                     /\ gwResult[h] \in {"ok", "error"}
                     /\ response[h] # GreetingReply

C6_Witness ==
    \E h \in Handlers :
        /\ pc[h] = "done"
        /\ body[h] = BodyHiya
        /\ gwCalls[h] = 1
        /\ sent[h] # <<GreetingReply>>

\* number of handlers of s at the given positions whose response is r
Responders(s, r, pcs) ==
    Cardinality({h \in Handlers :
                    sender[h] = s /\ response[h] = r /\ pc[h] \in pcs})

\* C7: a failed completion call never fails the handler: the response is the
\* non-empty fallback and its Bot append is issued; when that append has been
\* applied the record holds the fallback as a Bot turn, and the reply handed
\* to the transport is the fallback.
C7_GatewayFailureGivesFallback ==
    /\ FallbackReply # <<>>
    /\ \A h \in Handlers :
          gwResult[h] = "error" =>
             /\ response[h] = FallbackReply
             /\ pc[h] \in {"appendBot", "reply", "done", "failed"}
             /\ pc[h] = "appendBot" =>
                   /\ pending[h].message = FallbackReply
                   /\ pending[h].role = "Bot"
             /\ pc[h] = "failed" => failedAt[h] = "appendBot"
             /\ pc[h] = "done" => sent[h] = <<FallbackReply>>
    /\ \A h \in Handlers : failedAt[h] # "gateway"
    /\ \A s \in Senders :
          Turns(s, "Bot", FallbackReply)
             >= Responders(s, FallbackReply, {"reply", "done"})

C7_Witness ==
    \E h \in Handlers :
        /\ pc[h] = "done"
        /\ gwResult[h] = "error"
        /\ sent[h] = <<FallbackReply>>
        /\ Turns(sender[h], "Bot", FallbackReply) >= 1

\* C8: when every handler of a sender has finished, whatever the interleaving
\* of their store operations, the record of the sender holds one Human turn
\* per message and one Bot turn per reply, and nothing else.
C8_NoLostAppend ==
    \A s \in Senders :
        (\A h \in Handlers : sender[h] = s => pc[h] = "done") =>
            /\ Len(Record(s)) = 2 * Cardinality(Finished(s))
            /\ \A h \in Finished(s) :
                  /\ Turns(s, "Human", incomingMsg[h]) =
                        Cardinality({g \in Finished(s) :
                                        incomingMsg[g] = incomingMsg[h]})
                  /\ Turns(s, "Bot", sent[h][1]) =
                        Cardinality({g \in Finished(s) : sent[g] = sent[h]})

C8_Witness ==
    /\ \A h \in Handlers : pc[h] = "done" /\ sender[h] = "a"
    /\ \A i \in 1..Cardinality(Handlers) : Record("a")[i].role = "Human"

\* C9: a handler whose store operation threw is in the failed position, has
\* no store operation in flight and has handed no reply to the transport; it
\* made no completion call unless the operation that threw was the Bot
\* append; and from then on it takes no step.
C9_StoreFailureAborts ==
    /\ [](\A h \in Handlers :
            failedAt[h] # "none" =>
               /\ pc[h] = "failed"
               /\ pending[h] = NoTurn
               /\ sent[h] = <<>>
               /\ failedAt[h] # "appendBot" => gwCalls[h] = 0)
    /\ [][\A h \in Handlers :
            pc[h] = "failed" =>
               /\ pc'[h] = "failed"
               /\ failedAt'[h] = failedAt[h]
               /\ pending'[h] = pending[h]
               /\ sent'[h] = sent[h]
               /\ gwCalls'[h] = gwCalls[h]
               /\ gwResult'[h] = gwResult[h]]_vars

C9_Witness ==
    \E h, g \in Handlers :
        /\ pc[h] = "failed"
        /\ failedAt[h] = "findConversation"
        /\ sent[h] = <<>>
        /\ pc[g] = "done"
        /\ sender[g] = sender[h]

HumanAppendApplied(h) ==
    \/ pc[h] \in {"findUser", "insertUser", "findConversation", "rules",
                  "gateway", "appendBot", "reply", "done"}
    \/ pc[h] = "failed" /\ failedAt[h] # "appendHuman"

\* C10: from the moment a handler is past its Human append (looking up the
\* profile, reading the history, matching rules, calling the completion
\* service, appending or delivering the reply, or failed at any of these)
\* the record of its sender holds a Human turn with its message, one for
\* each such handler.
C10_HumanTurnBeforeReply ==
    \A h \in Handlers :
        HumanAppendApplied(h) =>
            Turns(sender[h], "Human", incomingMsg[h]) >=
               Cardinality({g \in Handlers :
                               /\ HumanAppendApplied(g)
                               /\ sender[g] = sender[h]
                               /\ incomingMsg[g] = incomingMsg[h]})

C10_Witness ==
    \E h \in Handlers :
        /\ pc[h] = "failed"
        /\ failedAt[h] = "findUser"
        /\ Turns(sender[h], "Human", incomingMsg[h]) >= 1


\* the history of the document of s in a conversations collection
RecordOf(coll, s) ==
    IF FindOne(coll, s) = 0 THEN <<>> ELSE coll[FindOne(coll, s)].history

\* C11 as stated: the profile is loaded before the Human turn is recorded,
\* so a record never holds a Human turn of a sender that has no profile.
C11_NoHumanTurnWithoutProfile ==
    \A s \in Senders :
        (\E i \in 1..Len(Record(s)) : Record(s)[i].role = "Human")
        => Count(users, s) >= 1

\* C11 amended: the order is RecordHumanTurn, then LoadProfile.  A handler
\* starts its profile lookup only in the step in which the store applies its
\* Human append, which puts its message at the end of the record; before
\* that step it does not touch the profiles; and while it looks up or
\* inserts the profile its Human turn is in the record.
C11_HumanTurnThenProfile ==
    /\ [](\A h \in Handlers :
            pc[h] \in {"findUser", "insertUser"} =>
               Turns(sender[h], "Human", incomingMsg[h]) >= 1)
    /\ [][\A h \in Handlers :
            /\ (pc'[h] = "findUser" /\ pc[h] # "findUser") =>
                  /\ pc[h] = "appendHuman"
                  /\ LET rec == RecordOf(conversations', sender[h])
                     IN  /\ rec # <<>>
                         /\ rec[Len(rec)].role = "Human"
                         /\ rec[Len(rec)].message = incomingMsg[h]
            /\ (pc[h] \in {"idle", "appendHuman"} /\ pc'[h] # pc[h]) =>
                  users' = users]_vars

C11_Witness ==
    \E h \in Handlers :
        /\ pc[h] = "findUser"
        /\ Count(users, sender[h]) = 0
        /\ Turns(sender[h], "Human", incomingMsg[h]) >= 1


\* C12 as stated: the history in the prompt of a completion call has at most
\* 20 entries.
C12_ContextAtMostTwenty ==
    \A h \in Handlers : pc[h] = "gateway" => Len(history[h]) <= 20

\* C12 amended: what getConversationHistory returns has at most 20 entries,
\* and the history in the prompt of a completion call has at most 21: the
\* stored slice plus the message pushed at line 127.
C12_ContextAtMostTwentyOne ==
    \A h \in Handlers :
        /\ pc[h] = "rules" => Len(history[h]) <= 20
        /\ pc[h] = "gateway" => Len(history[h]) <= 21

C12_Witness ==
    \E h \in Handlers :
        /\ pc[h] = "gateway"
        /\ Len(history[h]) = 21
        /\ Len(Record(sender[h])) > 20

\* C13: while the completion call of a handler is in flight, the last entry
\* of the history in its prompt is "Human: " followed by its own message,
\* whatever the store returned.
C13_LatestMessageLastInContext ==
    \A h \in Handlers :
        pc[h] = "gateway" =>
            /\ history[h] # <<>>
            /\ history[h][Len(history[h])] =
                  <<"Human", ":", " ">> \o incomingMsg[h]

\* the 20 turns the store returned were all appended after the handler's own
\* Human turn and do not hold its message
C13_Witness ==
    /\ pc[1] = "gateway"
    /\ Len(history[1]) = 21
    /\ Record("a")[1].message = incomingMsg[1]
    /\ \A i \in 1..20 : history[1][i] # <<"Human", ":", " ">> \o incomingMsg[1]


\* handlers of s that have handed the reply r to the transport
Delivered(s, r) == {h \in Handlers : sender[h] = s /\ sent[h] = <<r>>}

\* C14: a reply is handed to the transport only by a handler whose Bot append
\* has been applied: the record of the sender holds a Bot turn with that
\* reply for every handler that delivered it, and it does so already in the
\* state before the delivery.
C14_BotTurnBeforeReply ==
    /\ [](\A h \in Handlers :
            sent[h] # <<>> =>
               /\ Len(sent[h]) = 1
               /\ Turns(sender[h], "Bot", sent[h][1]) >=
                     Cardinality(Delivered(sender[h], sent[h][1])))
    /\ [][\A h \in Handlers :
            sent'[h] # sent[h] =>
               /\ pc[h] = "reply"
               /\ sent'[h] = <<response[h]>>
               /\ Turns(sender[h], "Bot", response[h]) >=
                     1 + Cardinality(Delivered(sender[h], response[h]))]_vars

C14_Witness ==
    \E h, g \in Handlers :
        /\ pc[h] = "done" /\ gwCalls[h] = 1
        /\ pc[g] = "done" /\ gwCalls[g] = 0
        /\ sender[h] = sender[g]
        /\ Turns(sender[h], "Bot", sent[h][1]) >= 1
        /\ Turns(sender[g], "Bot", sent[g][1]) >= 1


IsPrefix(old, new) ==
    Len(old) <= Len(new) /\ SubSeq(new, 1, Len(old)) = old

\* C15: every step leaves each profile and each conversation document in
\* place, adds documents only at the end of a collection, and leaves the
\* turns each record had as a prefix of the record.
C15_AppendOnly ==
    [][/\ IsPrefix(users, users')
       /\ Len(conversations) <= Len(conversations')
       /\ \A i \in 1..Len(conversations) :
             /\ conversations'[i].sender = conversations[i].sender
             /\ IsPrefix(conversations[i].history, conversations'[i].history)
       /\ \A s \in Senders :
             IsPrefix(RecordOf(conversations, s), RecordOf(conversations', s))
      ]_vars

C15_Witness ==
    \E s \in Senders : Len(Record(s)) >= 4 /\ Count(users, s) >= 1

\* number of turns with the given role among the first k turns of a record
RoleCount(hist, k, role) ==
    Cardinality({i \in 1..k : hist[i].role = role})

\* C19: every prefix of every record holds at least as many Human turns as
\* Bot turns.
C19_HumanTurnsLeadBotTurns ==
    [](\A s \in Senders :
          \A k \in 0..Len(Record(s)) :
             RoleCount(Record(s), k, "Human") >= RoleCount(Record(s), k, "Bot"))

C19_Witness ==
    /\ Len(Record("a")) >= 3
    /\ Record("a")[1].role = "Human"
    /\ Record("a")[2].role = "Human"
    /\ Record("a")[3].role = "Bot"
    /\ \E h \in Handlers : pc[h] = "failed"

\* C20: a sender that has a profile has a conversation record with at least
\* one Human turn.
C20_ProfileImpliesHumanTurn ==
    [](\A s \in Senders :
          Count(users, s) >= 1 =>
             /\ Count(conversations, s) >= 1
             /\ \E i \in 1..Len(Record(s)) : Record(s)[i].role = "Human")

\* one sender with a profile and a Human turn, another with a record and no
\* profile (the converse fails)
C20_Witness ==
    \E h, g \in Handlers :
        /\ Count(users, sender[h]) >= 1
        /\ Turns(sender[h], "Human", incomingMsg[h]) >= 1
        /\ pc[g] = "failed"
        /\ Count(users, sender[g]) = 0
        /\ Len(Record(sender[g])) >= 1


\* the timestamps of a record never go down in insertion order
NonDecreasing(hist) ==
    \A i \in 1..Len(hist) : \A j \in i..Len(hist) :
        hist[i].timestamp <= hist[j].timestamp

\* C16 as stated: the timestamps of every record are non-decreasing in
\* insertion order, also when handlers of the sender run concurrently.
C16_TimestampsNonDecreasing ==
    \A s \in Senders : NonDecreasing(Record(s))

\* C16 amended: no turn carries a timestamp later than the clock, and the
\* record of a sender whose messages are handled one at a time (sender "a"
\* of SpecClock), concurrently with handlers of other senders, has
\* non-decreasing timestamps.
C16_NonDecreasingWhenOneAtATime ==
    /\ NonDecreasing(Record("a"))
    /\ \A s \in Senders : \A i \in 1..Len(Record(s)) :
          Record(s)[i].timestamp <= clock

C16_Witness ==
    /\ Len(Record("a")) >= 4
    /\ Record("a")[1].timestamp < Record("a")[3].timestamp


\* any step of handler h after the arrival of its message, store failure
\* apart
HandlerStep(h) ==
    \/ ApplyAppend(h)
    \/ FindUser(h)
    \/ InsertUser(h)
    \/ FindConversation(h)
    \/ TryRules(h)
    \/ \E out \in Completions : GatewayReturn(h, out)
    \/ Reply(h)

\* the profile documents of s, in collection order
ProfilesOf(coll, s) == SelectSeq(coll, LAMBDA doc : doc.sender = s)

\* C17: while a handler awaits the completion service, every running handler
\* of another sender can take its next step, up to and including the
\* delivery of its reply; and a step of a handler leaves the profiles and
\* the record of every other sender as they were.
C17_SenderIndependence ==
    /\ [](\A a, b \in Handlers :
            (/\ pc[a] = "gateway"
             /\ sender[b] # sender[a]
             /\ pc[b] \notin {"idle", "done", "failed"})
            => ENABLED HandlerStep(b))
    /\ [][\A h \in Handlers :
            pc'[h] # pc[h] =>
               \A s \in Senders \ {sender'[h]} :
                  /\ RecordOf(conversations', s) = RecordOf(conversations, s)
                  /\ ProfilesOf(users', s) = ProfilesOf(users, s)]_vars

\* the second sender's handler arrived later and has delivered its reply,
\* the first sender's handler is still awaiting the completion service
C17_Witness ==
    \E a, b \in Handlers :
        /\ a < b
        /\ pc[a] = "gateway"
        /\ pc[b] = "done"
        /\ sender[b] # sender[a]
        /\ sent[b] # <<>>
        /\ Len(Record(sender[b])) = 2


-----------------------------------------------------------------------------
(* Termination.  Concurrent handlers of one sender, store failures, the
   clock stands still.  Handlers are numbered in the order of arrival of
   their messages; the messages are in turn one for the completion service
   and one greeting.  Every store operation and every completion call in
   flight eventually returns or throws: a handler that can take a step or
   fail eventually does one of the two. *)

ReceiveLive(h, s, b) ==
    /\ s = "a"
    /\ b = (IF h % 2 = 1 THEN BodyHiya ELSE BodyHiPadded)
    /\ \A g \in Handlers : g < h => pc[g] # "idle"
    /\ ReceiveMessage(h, s, b)

NextLive ==
    \/ \E h \in Handlers, s \in Senders, b \in Bodies : ReceiveLive(h, s, b)
    \/ \E h \in Handlers : ApplyAppend(h)
    \/ \E h \in Handlers : FindUser(h)
    \/ \E h \in Handlers : InsertUser(h)
    \/ \E h \in Handlers : FindConversation(h)
    \/ \E h \in Handlers : TryRules(h)
    \/ \E h \in Handlers, out \in Completions : GatewayReturn(h, out)
    \/ \E h \in Handlers : Reply(h)
    \/ \E h \in Handlers : StoreFail(h)

Fairness ==
    \A h \in 1..NumHandlers : WF_vars(HandlerStep(h) \/ StoreFail(h))

SpecLive == Init /\ [][NextLive]_vars /\ Fairness

\* how far a handler at position p has come through lines 78-90 and 123-170
Rank(p) ==
    CASE p = "idle" -> 0
      [] p = "appendHuman" -> 1
      [] p = "findUser" -> 2
      [] p = "insertUser" -> 3
      [] p = "findConversation" -> 4
      [] p = "rules" -> 5
      [] p = "gateway" -> 6
      [] p = "appendBot" -> 7
      [] p = "reply" -> 8
      [] p = "done" -> 9
      [] p = "failed" -> 9

\* C18: every handler that has received a message ends, either done with
\* its reply handed to the transport or failed at a store operation; each
\* step of a handler takes it to a later position, never to the same or an
\* earlier one.
C18_HandlersTerminate ==
    /\ \A h \in 1..NumHandlers :
          (pc[h] # "idle") ~> (pc[h] \in {"done", "failed"})
    /\ [](\A h \in Handlers :
            /\ pc[h] = "done" => sent[h] # <<>> /\ failedAt[h] = "none"
            /\ pc[h] = "failed" => failedAt[h] \in StorePcs /\ sent[h] = <<>>)
    /\ [][\A h \in Handlers :
            pc'[h] # pc[h] => Rank(pc'[h]) > Rank(pc[h])]_vars

\* every handler has ended, one with a reply after a completion call, one
\* with a store failure
C18_Witness ==
    /\ \A h \in Handlers : pc[h] \in {"done", "failed"}
    /\ \E h \in Handlers : pc[h] = "done" /\ gwCalls[h] = 1
    /\ \E h \in Handlers : pc[h] = "failed" /\ failedAt[h] = "appendBot"

====
